---- MODULE Spec2Model ----
(***************************************************************************)
(* A model of src/main.py: the prayer-time schedule to calendar-event      *)
(* converter.  Time utilities (round_time, convert_to_24h_format), the     *)
(* calendar sink (create_event), the rule engine (process_prayer_events,   *)
(* calculate_isha_end), the schedule store (load_csv_data) and the period  *)
(* driver (process_month, main).                                           *)
(*                                                                         *)
(* Conventions.  A datetime.date is a record [year, month, day]; a         *)
(* datetime.time is a record [hour, minute, second]; a datetime.datetime   *)
(* is a record [date, time].  Every datetime of the program carries the    *)
(* same tzinfo (TIME_ZONE), and Python compares and subtracts two aware    *)
(* datetimes with the same tzinfo by their wall-clock fields, so local     *)
(* wall-clock arithmetic is what the model computes.  Python's None is the *)
(* record None.  A raw CSV cell is a record with a tag.                    *)
(***************************************************************************)
EXTENDS Integers, Sequences, FiniteSets, TLC

VARIABLES
    pc,               \* position of the program
    start_date,       \* main: requested range, first day
    end_date,         \* main: requested range, last day
    dry_run,          \* main: --dry-run
    service,          \* main: calendar_service ("none" or "built")
    files,            \* the prayer-times directory: filename -> rows of the file
    current_month,    \* main: loop variable
    current_data,     \* process_month: table of the month
    next_data,        \* process_month: table of the following month
    keys,             \* process_month: sorted(current_data.keys())
    idx,              \* process_month: position in keys
    processed_dates,  \* process_month: counter
    row,              \* process_prayer_events: the day's row
    event_date,       \* process_prayer_events: the day
    next_day_row,     \* process_prayer_events: <<>> (None) or <<row>>
    ci,               \* process_prayer_events: index into EVENT_CONFIGS
    calls,            \* every create_event call so far, materialized
    inserts,          \* number of events().insert(...).execute() calls made
    write_failed,     \* some create_event call returned False
    rt_t,             \* round_time harness: the time given
    rt_s,             \* round_time harness: the step given
    rt_r1,            \* round_time harness: round_time(rt_t, rt_s)
    rt_r2,            \* round_time harness: round_time(rt_r1, rt_s)
    sink_start,       \* create_event harness: start_time given
    sink_end          \* create_event harness: end_time given

vars == <<pc, start_date, end_date, dry_run, service, files, current_month,
          current_data, next_data, keys, idx, processed_dates, row,
          event_date, next_day_row, ci, calls, inserts, write_failed,
          rt_t, rt_s, rt_r1, rt_r2, sink_start, sink_end>>

mainVars == <<start_date, end_date, dry_run, service, files, current_month>>
monthVars == <<current_data, next_data, keys, idx, processed_dates>>
engineVars == <<row, event_date, next_day_row, ci>>
sinkVars == <<calls, inserts, write_failed>>
roundVars == <<rt_t, rt_s, rt_r1, rt_r2, sink_start, sink_end>>

(***************************************************************************)
(* Bounds of the model.                                                    *)
(***************************************************************************)
\* round_time harness: the steps tried are 1..MaxStep
MaxStep == 16

(***************************************************************************)
(* Python values.                                                          *)
(***************************************************************************)
None == [none |-> TRUE]

Date(y, m, d) == [year |-> y, month |-> m, day |-> d]

Time(h, m, s) == [hour |-> h, minute |-> m, second |-> s]

\* datetime.time(hour, minute) raises ValueError outside these ranges
ValidTime(t) ==
    /\ t.hour \in 0..23
    /\ t.minute \in 0..59
    /\ t.second \in 0..59

HoursPerDay == 24

MinutesPerHour == 60

MinutesPerDay == HoursPerDay * MinutesPerHour

SecondsPerDay == MinutesPerDay * 60

\* seconds since midnight of a time of day
TimeSecs(t) == (t.hour * MinutesPerHour + t.minute) * 60 + t.second

\* the time of day that is n seconds after midnight, 0 <= n < SecondsPerDay
SecsTime(n) ==
    Time(n \div (MinutesPerHour * 60), (n \div 60) % MinutesPerHour, n % 60)

(***************************************************************************)
(* The proleptic Gregorian calendar of datetime.date.                      *)
(***************************************************************************)
IsLeap(y) == (y % 4 = 0) /\ ((y % 100 # 0) \/ (y % 400 = 0))

DaysInMonth(y, m) ==
    IF m = 2 THEN (IF IsLeap(y) THEN 29 ELSE 28)
    ELSE IF m \in {4, 6, 9, 11} THEN 30 ELSE 31

RECURSIVE DaysBeforeMonth(_, _)
DaysBeforeMonth(y, m) ==
    IF m = 1 THEN 0 ELSE DaysBeforeMonth(y, m - 1) + DaysInMonth(y, m - 1)

DaysBeforeYear(y) ==
    (y - 1) * 365 + ((y - 1) \div 4) - ((y - 1) \div 100) + ((y - 1) \div 400)

\* date.toordinal(): 1 for 0001-01-01
ToOrdinal(d) == DaysBeforeYear(d.year) + DaysBeforeMonth(d.year, d.month) + d.day

\* date.weekday(): Monday is 0, Friday is 4
Weekday(d) == (ToOrdinal(d) + 6) % 7

\* a <= b on dates
DateLE(a, b) == ToOrdinal(a) <= ToOrdinal(b)

\* d + datetime.timedelta(days=1)
NextDay(d) ==
    IF d.day < DaysInMonth(d.year, d.month) THEN Date(d.year, d.month, d.day + 1)
    ELSE IF d.month < 12 THEN Date(d.year, d.month + 1, 1)
    ELSE Date(d.year + 1, 1, 1)

RECURSIVE AddDays(_, _)
AddDays(d, n) == IF n = 0 THEN d ELSE AddDays(NextDay(d), n - 1)

\* datetime.datetime.combine(date, time)
Combine(d, t) == [date |-> d, time |-> t]

\* a <= b, a < b on datetimes of the same tzinfo
DateTimeLE(a, b) ==
    \/ ToOrdinal(a.date) < ToOrdinal(b.date)
    \/ a.date = b.date /\ TimeSecs(a.time) <= TimeSecs(b.time)

DateTimeLT(a, b) == DateTimeLE(a, b) /\ a # b

\* a - b in seconds
DateTimeDiff(a, b) ==
    (ToOrdinal(a.date) - ToOrdinal(b.date)) * SecondsPerDay
        + TimeSecs(a.time) - TimeSecs(b.time)

\* dt + datetime.timedelta(seconds=n), n >= 0
DateTimeAdd(dt, n) ==
    LET total == TimeSecs(dt.time) + n
    IN  Combine(AddDays(dt.date, total \div SecondsPerDay),
                SecsTime(total % SecondsPerDay))

\* (datetime.combine(any_date, t) + timedelta(minutes=n)).time(): the date
\* is dropped, so the offset wraps across midnight in either direction
TimePlusMinutes(t, n) ==
    SecsTime((TimeSecs(t) + n * 60) % SecondsPerDay)

(***************************************************************************)
(* Time utilities.                                                         *)
(***************************************************************************)
\* Python's round(n / d) for integers n >= 0, d > 0: ties go to the even
\* neighbour
PyRound(n, d) ==
    LET q == n \div d
        r == n % d
    IN  IF 2 * r < d THEN q
        ELSE IF 2 * r > d THEN q + 1
        ELSE IF q % 2 = 0 THEN q ELSE q + 1

\* a plausible slip in round_time: the hour is not wrapped modulo 24
round_time_nowrap(time_obj, round_to) ==
    LET total_minutes == time_obj.hour * MinutesPerHour + time_obj.minute
        rounded_total == PyRound(total_minutes, round_to) * round_to
    IN  Time(rounded_total \div MinutesPerHour, rounded_total % MinutesPerHour, 0)

\* a plausible slip in round_time: always up to the next multiple
round_time_up(time_obj, round_to) ==
    LET total_minutes == time_obj.hour * MinutesPerHour + time_obj.minute
        rounded_total == ((total_minutes \div round_to) + 1) * round_to
    IN  Time((rounded_total \div MinutesPerHour) % HoursPerDay,
             rounded_total % MinutesPerHour, 0)

round_time(time_obj, round_to) ==
    LET total_minutes == time_obj.hour * MinutesPerHour + time_obj.minute
        rounded_total == PyRound(total_minutes, round_to) * round_to
        rounded_hour == (rounded_total \div MinutesPerHour) % HoursPerDay
        rounded_minute == rounded_total % MinutesPerHour
    IN  Time(rounded_hour, rounded_minute, 0)

(***************************************************************************)
(* Raw CSV cells.  A row of csv.DictReader maps each column of the header  *)
(* to a string, or to None when the line has fewer cells than the header.  *)
(*   absent : the column is not a key of the row                           *)
(*   none   : None (a short line)                                          *)
(*   empty  : '' or white space only                                       *)
(*   text   : any other text that is not <int>:<int>                       *)
(*   hm     : the text h:m, both parts accepted by int()                   *)
(***************************************************************************)
Cell(tag, h, m) == [tag |-> tag, h |-> h, m |-> m]

Absent == Cell("absent", 0, 0)

NoneCell == Cell("none", 0, 0)

Empty == Cell("empty", 0, 0)

Text == Cell("text", 0, 0)

Hm(h, m) == Cell("hm", h, m)

\* CSVColumn values the engine reads
FAJR_BEGINS == "Fajr Begins"

DHUHR_JAMAAH == "Dhuhr Jama'ah"

ASR_JAMAAH == "Asr Jama'ah"

MAGHRIB == "Maghrib"

ISHA_JAMAAH == "Isha'a Jama'ah"

Columns == {FAJR_BEGINS, DHUHR_JAMAAH, ASR_JAMAAH, MAGHRIB, ISHA_JAMAAH}

\* row.get(column, ''): the default only replaces a missing key
RowGet(r, column) == IF r[column].tag = "absent" THEN Empty ELSE r[column]

\* x.strip() raises AttributeError when x is None
StripRaises(cell) == cell.tag = "none"

\* bool(s.strip()) of a string cell
NonEmpty(cell) == cell.tag \in {"text", "hm"}

convert_to_24h_format(time_str, prayer_type) ==
    IF time_str.tag # "hm" THEN None
    ELSE LET hour == IF prayer_type \in {"dhuhr", "asr", "maghrib", "isha"}
                        /\ time_str.h < 12
                     THEN time_str.h + 12
                     ELSE time_str.h
             minute == time_str.m
         IN  IF ValidTime(Time(hour, minute, 0)) THEN Time(hour, minute, 0)
             ELSE None

(***************************************************************************)
(* Event configuration.  Summaries are written in ASCII.                   *)
(***************************************************************************)
EventConfig(summary, csv_column, start_adjust, end_adjust) ==
    [summary |-> summary, csv_column |-> csv_column,
     start_adjust |-> start_adjust, end_adjust |-> end_adjust]

EVENT_CONFIGS ==
    << EventConfig("Suhur", FAJR_BEGINS, -40, 0),
       EventConfig("Fajr & Morning Adhkar", FAJR_BEGINS, 0, 45),
       EventConfig("Zuhr & News", DHUHR_JAMAAH, -30, 60),
       EventConfig("'Asr & Evening Adhkar", ASR_JAMAAH, -60, -15),
       EventConfig("Maghrib", MAGHRIB, -10, 80),
       EventConfig("'Isha", ISHA_JAMAAH, -15, 30) >>

\* needle in summary, for the needles the engine looks for
Contains(summary, needle) ==
    CASE summary = "Zuhr & News" -> needle = "Zuhr"
      [] summary = "'Asr & Evening Adhkar" -> needle = "Asr"
      [] summary = "Maghrib" -> needle = "Maghrib"
      [] summary = "'Isha" -> needle = "Isha"
      [] OTHER -> FALSE

\* summary.startswith('Fajr')
StartsWithFajr(summary) == summary = "Fajr & Morning Adhkar"

PrayerType(summary) ==
    IF Contains(summary, "Zuhr") \/ Contains(summary, "Dhuhr") THEN "dhuhr"
    ELSE IF Contains(summary, "Asr") THEN "asr"
    ELSE IF Contains(summary, "Maghrib") THEN "maghrib"
    ELSE IF Contains(summary, "Isha") THEN "isha"
    ELSE "fajr"

Times(start_time, end_time) == [start_time |-> start_time, end_time |-> end_time]

\* the configured offsets put on the 5-minute grid of Suhur
StandardTimes_round5(config, time_str) ==
    LET base_time == convert_to_24h_format(time_str, PrayerType(config.summary))
    IN  IF base_time = None THEN None
        ELSE Times(round_time(TimePlusMinutes(base_time, config.start_adjust), 5),
                   round_time(TimePlusMinutes(base_time, config.end_adjust), 5))

\* the configured offsets, each end rounded to the nearest 15 minutes
StandardTimes(config, time_str) ==
    LET base_time == convert_to_24h_format(time_str, PrayerType(config.summary))
    IN  IF base_time = None THEN None
        ELSE Times(round_time(TimePlusMinutes(base_time, config.start_adjust), 15),
                   round_time(TimePlusMinutes(base_time, config.end_adjust), 15))

\* the year and month of the Dhuhr override, and its weekday (Friday)
OverrideYear == 2025

OverrideMonth == 3

OverrideWeekday == 4

\* the fixed pair of the override month
DhuhrOverride(ev_date) ==
    IF Weekday(ev_date) = OverrideWeekday
    THEN Times(Time(12, 0, 0), Time(15, 0, 0))
    ELSE Times(Time(13, 0, 0), Time(15, 0, 0))

\* the start and end of one configured event, or None when the loop body
\* takes "continue" because the value does not parse
EventTimes(config, time_str, ev_date) ==
    IF config.summary = "Suhur" THEN
        LET base_time == convert_to_24h_format(time_str, "fajr")
        IN  IF base_time = None THEN None
            ELSE Times(round_time(TimePlusMinutes(base_time, -40), 5), base_time)
    ELSE IF StartsWithFajr(config.summary) THEN
        LET base_time == convert_to_24h_format(time_str, "fajr")
        IN  IF base_time = None THEN None
            ELSE Times(base_time, round_time(TimePlusMinutes(base_time, 45), 15))
    ELSE IF Contains(config.summary, "Zuhr") \/ Contains(config.summary, "Dhuhr") THEN
        IF ev_date.month = OverrideMonth /\ ev_date.year = OverrideYear
        THEN DhuhrOverride(ev_date)
        ELSE StandardTimes(config, time_str)
    ELSE StandardTimes(config, time_str)

\* first <= d <= last
InRange(d, first, last) == DateLE(first, d) /\ DateLE(d, last)

(***************************************************************************)
(* Calendar sink.                                                          *)
(***************************************************************************)
\* a create_event that moves the end only when it is before the start
EndInstant_strict(ev_date, start_time, end_time) ==
    IF DateTimeLT(Combine(ev_date, end_time), Combine(ev_date, start_time))
    THEN Combine(NextDay(ev_date), end_time)
    ELSE Combine(ev_date, end_time)

\* end_dt of create_event
EndInstant(ev_date, start_time, end_time) ==
    IF DateTimeLE(Combine(ev_date, end_time), Combine(ev_date, start_time))
    THEN Combine(NextDay(ev_date), end_time)
    ELSE Combine(ev_date, end_time)

\* the arguments of a create_event call with the instants it materializes
EventBody(summary, start_time, end_time, ev_date) ==
    [summary |-> summary, start_time |-> start_time, end_time |-> end_time,
     event_date |-> ev_date,
     start_dt |-> Combine(ev_date, start_time),
     end_dt |-> EndInstant(ev_date, start_time, end_time)]

\* a create_event that goes to the service even in a dry run
create_event_no_dry_run(summary, start_time, end_time, ev_date, ok) ==
    /\ calls' = Append(calls, EventBody(summary, start_time, end_time, ev_date))
    /\ IF service = "none"
       THEN inserts' = inserts /\ write_failed' = TRUE
       ELSE inserts' = inserts + 1 /\ write_failed' = (write_failed \/ ~ok)

\* create_event; ok says whether the insert of this call succeeds.  With
\* service None the attribute access raises inside the try block, before
\* any request is made, and the call returns False.
create_event(summary, start_time, end_time, ev_date, ok) ==
    /\ calls' = Append(calls, EventBody(summary, start_time, end_time, ev_date))
    /\ IF dry_run
       THEN UNCHANGED <<inserts, write_failed>>
       ELSE IF service = "none"
            THEN inserts' = inserts /\ write_failed' = TRUE
            ELSE inserts' = inserts + 1 /\ write_failed' = (write_failed \/ ~ok)

(***************************************************************************)
(* The 'Isha End midpoint.                                                 *)
(***************************************************************************)
IshaParams(start_time, end_time, target_date) ==
    [start_time |-> start_time, end_time |-> end_time, target_date |-> target_date]

\* a midpoint put on the 15-minute grid like the other events
calculate_isha_end_rounded(maghrib_time, fajr_time, ev_date, first, last) ==
    LET maghrib_dt == Combine(ev_date, maghrib_time)
        fajr_dt == Combine(NextDay(ev_date), fajr_time)
        midpoint == DateTimeAdd(maghrib_dt, DateTimeDiff(fajr_dt, maghrib_dt) \div 2)
        isha_end == DateTimeAdd(midpoint, 15 * 60)
    IN  IF DateTimeLE(fajr_dt, maghrib_dt) THEN None
        ELSE IF ~InRange(midpoint.date, first, last) THEN None
        ELSE IshaParams(round_time(midpoint.time, 15), round_time(isha_end.time, 15),
                        midpoint.date)

\* calculate_isha_end: None, or the start, the end and the date of the event
calculate_isha_end(maghrib_time, fajr_time, ev_date, first, last) ==
    LET maghrib_dt == Combine(ev_date, maghrib_time)
        next_day == NextDay(ev_date)
        fajr_dt == Combine(next_day, fajr_time)
        \* the difference is a whole number of minutes: halving it is exact
        midpoint == DateTimeAdd(maghrib_dt, DateTimeDiff(fajr_dt, maghrib_dt) \div 2)
        isha_end == DateTimeAdd(midpoint, 15 * 60)
        target_date == midpoint.date
    IN  IF DateTimeLE(fajr_dt, maghrib_dt) THEN None
        ELSE IF ~InRange(target_date, first, last) THEN None
        ELSE IshaParams(midpoint.time, isha_end.time, target_date)

(***************************************************************************)
(* The rule engine, process_prayer_events, one action per step:            *)
(*   config   : the body of the loop over EVENT_CONFIGS, for index ci      *)
(*   tarawih  : the Tarawih block                                          *)
(*   isha_end : the 'Isha End block, then the return to process_month      *)
(* An AttributeError (None.strip()) is caught nowhere: it ends the run.    *)
(***************************************************************************)
\* an uncaught exception leaves process_prayer_events, process_month and main
Raise ==
    /\ pc' = "crashed"
    /\ UNCHANGED <<ci, idx, processed_dates, sinkVars>>

\* the range test of the loop body
ConfigInRange(ev_date, first, last) == InRange(ev_date, first, last)

\* to the next configuration, or on to the Tarawih block
AfterConfig ==
    IF ci < Len(EVENT_CONFIGS)
    THEN pc' = "config" /\ ci' = ci + 1
    ELSE pc' = "tarawih" /\ ci' = ci

ConfigStep ==
    /\ pc = "config"
    /\ LET config == EVENT_CONFIGS[ci]
           cell == RowGet(row, config.csv_column)
           times == EventTimes(config, cell, event_date)
       IN  IF StripRaises(cell) THEN Raise
           ELSE IF \/ ~NonEmpty(cell)
                   \/ times = None
                   \/ ~ConfigInRange(event_date, start_date, end_date)
           THEN AfterConfig /\ UNCHANGED <<idx, processed_dates, sinkVars>>
           ELSE /\ AfterConfig
                /\ UNCHANGED <<idx, processed_dates>>
                /\ \E ok \in BOOLEAN :
                       create_event(config.summary, times.start_time,
                                    times.end_time, event_date, ok)
    /\ UNCHANGED <<mainVars, current_data, next_data, keys, row, event_date,
                   next_day_row, roundVars>>

\* start and end of the Tarawih event for a parsed Fajr time
TarawihTimes(fajr_time) ==
    LET suhur_start == TimePlusMinutes(fajr_time, -40)
        suhur_start_time == round_time(suhur_start, 5)
        tarawih_start_time == round_time(TimePlusMinutes(suhur_start, -60), 5)
    IN  Times(tarawih_start_time, suhur_start_time)

TarawihStep ==
    /\ pc = "tarawih"
    /\ LET fajr_str == RowGet(row, FAJR_BEGINS)
           fajr_time == convert_to_24h_format(fajr_str, "fajr")
       IN  IF StripRaises(fajr_str) THEN Raise
           ELSE IF ~NonEmpty(fajr_str) \/ fajr_time = None
           THEN pc' = "isha_end" /\ UNCHANGED <<ci, idx, processed_dates, sinkVars>>
           ELSE /\ pc' = "isha_end"
                /\ UNCHANGED <<ci, idx, processed_dates>>
                /\ \E ok \in BOOLEAN :
                       create_event("Tarawih", TarawihTimes(fajr_time).start_time,
                                    TarawihTimes(fajr_time).end_time, event_date, ok)
    /\ UNCHANGED <<mainVars, current_data, next_data, keys, row, event_date,
                   next_day_row, roundVars>>

\* process_prayer_events returns; process_month counts the day and goes on
Return ==
    /\ pc' = "dates"
    /\ idx' = idx + 1
    /\ processed_dates' = processed_dates + 1
    /\ ci' = ci

\* not next_day_row or FAJR_BEGINS not in next_day_row
NoNextDayFajr(next_row) ==
    \/ next_row = <<>>
    \/ next_row[1][FAJR_BEGINS].tag = "absent"

IshaEndStep ==
    /\ pc = "isha_end"
    /\ LET maghrib_str == RowGet(row, MAGHRIB)
           maghrib_time == convert_to_24h_format(maghrib_str, "maghrib")
       IN  IF StripRaises(maghrib_str) THEN Raise
           ELSE IF maghrib_time = None \/ NoNextDayFajr(next_day_row)
           THEN Return /\ UNCHANGED sinkVars
           ELSE LET fajr_str == RowGet(next_day_row[1], FAJR_BEGINS)
                    fajr_time == convert_to_24h_format(fajr_str, "fajr")
                    isha_params ==
                        calculate_isha_end(maghrib_time, fajr_time, event_date,
                                           start_date, end_date)
                IN  IF StripRaises(fajr_str) THEN Raise
                    ELSE IF fajr_time = None THEN Return /\ UNCHANGED sinkVars
                    ELSE IF isha_params = None THEN Return /\ UNCHANGED sinkVars
                    ELSE /\ Return
                         /\ \E ok \in BOOLEAN :
                                create_event("'Isha End", isha_params.start_time,
                                             isha_params.end_time,
                                             isha_params.target_date, ok)
    /\ UNCHANGED <<mainVars, current_data, next_data, keys, row, event_date,
                   next_day_row, roundVars>>

(***************************************************************************)
(* The schedule store.  A file name <abbreviated month>-<year>.csv is the  *)
(* record [year, month]; a file is the sequence of its lines, each with    *)
(* its Date cell and its row; a name outside DOMAIN files is a missing     *)
(* file.                                                                   *)
(***************************************************************************)
FileName(month_date) == [year |-> month_date.year, month |-> month_date.month]

\* the Date cell "<day> <abbreviated month>"
DayMonth(day, month) == [tag |-> "dm", day |-> day, month |-> month]

BadDate == [tag |-> "bad", day |-> 0, month |-> 0]

Line(date_cell, cols) == [date |-> date_cell, cols |-> cols]

\* the year strptime gives a date string that names none
StrptimeDefaultYear == 1900

\* datetime.strptime(date_str, '%d %b') succeeds
ParsesAsDate(date_cell) ==
    /\ date_cell.tag = "dm"
    /\ date_cell.month \in 1..12
    /\ date_cell.day \in 1..DaysInMonth(StrptimeDefaultYear, date_cell.month)

EmptyDict == [d \in {} |-> None]

\* data[key] = value
DictPut(data, key, value) ==
    [d \in (DOMAIN data) \cup {key} |-> IF d = key THEN value ELSE data[d]]

\* data.get(key): <<>> for None
DictGet(data, key) == IF key \in DOMAIN data THEN <<data[key]>> ELSE <<>>

RECURSIVE LoadLines(_, _, _)
LoadLines(lines, year, data) ==
    IF lines = <<>> THEN data
    ELSE LET line == Head(lines)
             row_date == Date(year, line.date.month, line.date.day)
         IN  LoadLines(Tail(lines), year,
                       IF ParsesAsDate(line.date)
                       THEN DictPut(data, row_date, line.cols)
                       ELSE data)

load_csv_data(filename) ==
    IF filename \notin DOMAIN files THEN EmptyDict
    ELSE LoadLines(files[filename], filename.year, EmptyDict)

(***************************************************************************)
(* The period driver: process_month and the loop of main.                  *)
(***************************************************************************)
\* sorted(S) for a set of dates
RECURSIVE SortedDates(_)
SortedDates(S) ==
    IF S = {} THEN <<>>
    ELSE LET first == CHOOSE d \in S : \A e \in S : DateLE(d, e)
         IN  <<first>> \o SortedDates(S \ {first})

\* d.replace(day=n)
ReplaceDay(d, n) == Date(d.year, d.month, n)

\* (month_date.replace(day=28) + timedelta(days=4)).replace(day=1)
NextMonthDate(month_date) == ReplaceDay(AddDays(ReplaceDay(month_date, 28), 4), 1)

\* a process_month that hands every date of the table to the engine
DateSelected_all(current_date, first, last) == TRUE

\* the range test of process_month's loop
DateSelected(current_date, first, last) == InRange(current_date, first, last)

\* current_data.get(next_day) or next_data.get(next_day)
NextDayRow(cur, nxt, next_day) ==
    IF DictGet(cur, next_day) # <<>> THEN DictGet(cur, next_day)
    ELSE DictGet(nxt, next_day)

\* main after the arguments are parsed: the calendar service is built unless
\* dry_run is set (a failed authentication exits with status 1), then the
\* loop starts at the first day of start_date's month
MainStart ==
    /\ pc = "main"
    /\ \E auth_ok \in BOOLEAN :
           IF dry_run
           THEN /\ service' = "none"
                /\ current_month' = ReplaceDay(start_date, 1)
                /\ pc' = "loop"
           ELSE IF auth_ok
           THEN /\ service' = "built"
                /\ current_month' = ReplaceDay(start_date, 1)
                /\ pc' = "loop"
           ELSE /\ pc' = "exit1"
                /\ UNCHANGED <<service, current_month>>
    /\ UNCHANGED <<start_date, end_date, dry_run, files, monthVars, engineVars,
                   sinkVars, roundVars>>

\* the loop test holds: process_month is called and loads its two tables
LoopEnter ==
    /\ pc = "loop"
    /\ DateLE(current_month, ReplaceDay(end_date, 1))
    /\ current_data' = load_csv_data(FileName(current_month))
    /\ next_data' = load_csv_data(FileName(NextMonthDate(current_month)))
    /\ keys' = SortedDates(DOMAIN current_data')
    /\ idx' = 1
    /\ processed_dates' = 0
    /\ pc' = "dates"
    /\ UNCHANGED <<mainVars, engineVars, sinkVars, roundVars>>

\* the loop test fails: main returns
LoopExit ==
    /\ pc = "loop"
    /\ ~DateLE(current_month, ReplaceDay(end_date, 1))
    /\ pc' = "done"
    /\ UNCHANGED <<mainVars, monthVars, engineVars, sinkVars, roundVars>>

\* a date of the table outside the range: continue
DateSkip ==
    /\ pc = "dates"
    /\ idx <= Len(keys)
    /\ ~DateSelected(keys[idx], start_date, end_date)
    /\ idx' = idx + 1
    /\ UNCHANGED <<pc, mainVars, current_data, next_data, keys, processed_dates,
                   engineVars, sinkVars, roundVars>>

\* a date of the table inside the range: process_prayer_events is called
DateCall ==
    /\ pc = "dates"
    /\ idx <= Len(keys)
    /\ DateSelected(keys[idx], start_date, end_date)
    /\ row' = current_data[keys[idx]]
    /\ event_date' = keys[idx]
    /\ next_day_row' = NextDayRow(current_data, next_data, NextDay(keys[idx]))
    /\ ci' = 1
    /\ pc' = "config"
    /\ UNCHANGED <<mainVars, monthVars, sinkVars, roundVars>>

\* process_month returns next_month_date, which main assigns to current_month
MonthReturn ==
    /\ pc = "dates"
    /\ idx > Len(keys)
    /\ current_month' = NextMonthDate(current_month)
    /\ pc' = "loop"
    /\ UNCHANGED <<start_date, end_date, dry_run, service, files, monthVars,
                   engineVars, sinkVars, roundVars>>

(***************************************************************************)
(* Inputs.                                                                 *)
(***************************************************************************)
\* a well-formed row: Fajr 05:10, Dhuhr 1:15, Asr 4:15, Maghrib 6:05, Isha 8:30
GoodRow ==
    [c \in Columns |->
        CASE c = FAJR_BEGINS -> Hm(5, 10)
          [] c = DHUHR_JAMAAH -> Hm(1, 15)
          [] c = ASR_JAMAAH -> Hm(4, 15)
          [] c = MAGHRIB -> Hm(6, 5)
          [] c = ISHA_JAMAAH -> Hm(8, 30)]

\* as the following day's row it puts the midpoint after midnight
LateFajrRow == [GoodRow EXCEPT ![FAJR_BEGINS] = Hm(6, 30)]

\* a short line: the cells after Dhuhr are missing
ShortRow ==
    [GoodRow EXCEPT ![ASR_JAMAAH] = NoneCell, ![MAGHRIB] = NoneCell,
                    ![ISHA_JAMAAH] = NoneCell]

\* no cell parses except Asr
BadRow ==
    [GoodRow EXCEPT ![FAJR_BEGINS] = Text, ![DHUHR_JAMAAH] = Empty,
                    ![MAGHRIB] = Hm(24, 0), ![ISHA_JAMAAH] = Absent]

ProgramIdle ==
    /\ start_date = None
    /\ end_date = None
    /\ dry_run = TRUE
    /\ service = "none"
    /\ files = EmptyDict
    /\ current_month = None

MonthIdle ==
    /\ current_data = EmptyDict
    /\ next_data = EmptyDict
    /\ keys = <<>>
    /\ idx = 0
    /\ processed_dates = 0

EngineIdle ==
    /\ row = None
    /\ event_date = None
    /\ next_day_row = <<>>
    /\ ci = 0

SinkIdle ==
    /\ calls = <<>>
    /\ inserts = 0
    /\ write_failed = FALSE

RoundIdle ==
    /\ rt_t = None
    /\ rt_s = 0
    /\ rt_r1 = None
    /\ rt_r2 = None
    /\ sink_start = None
    /\ sink_end = None

(***************************************************************************)
(* Spec: a full run of main.  The directory holds, for each of RunDays     *)
(* consecutive days from FirstRunDate, no line, a line whose date does not *)
(* parse, or a line with one of three rows, in the file of the day's month;*)
(* a file with no line is missing.  The lines of a file are in descending  *)
(* date order.  The range is any pair of these days, in either order (the  *)
(* command line does not compare them).                                    *)
(***************************************************************************)
FirstRunDate == Date(2024, 12, 31)

RunDays == 3

RunDates == {AddDays(FirstRunDate, n) : n \in 0..(RunDays - 1)}

SlotKinds == {"absent", "junk", "late", "short", "bad"}

SlotLines(d, kind) ==
    CASE kind = "absent" -> <<>>
      [] kind = "junk" -> <<Line(BadDate, GoodRow)>>
      [] kind = "late" -> <<Line(DayMonth(d.day, d.month), LateFajrRow)>>
      [] kind = "short" -> <<Line(DayMonth(d.day, d.month), ShortRow)>>
      [] kind = "bad" -> <<Line(DayMonth(d.day, d.month), BadRow)>>

RECURSIVE FileLines(_, _, _)
FileLines(dates, filename, pick) ==
    IF dates = <<>> THEN <<>>
    ELSE FileLines(Tail(dates), filename, pick)
            \o (IF FileName(Head(dates)) = filename
                THEN SlotLines(Head(dates), pick[Head(dates)])
                ELSE <<>>)

Directory(pick) ==
    LET names == {FileName(d) : d \in {e \in RunDates : pick[e] # "absent"}}
    IN  [filename \in names |-> FileLines(SortedDates(RunDates), filename, pick)]

Init ==
    /\ pc = "main"
    /\ start_date \in RunDates
    /\ end_date \in RunDates
    /\ dry_run \in BOOLEAN
    /\ service = "none"
    /\ \E pick \in [RunDates -> SlotKinds] : files = Directory(pick)
    /\ current_month = None
    /\ MonthIdle
    /\ EngineIdle
    /\ SinkIdle
    /\ RoundIdle

EngineNext == ConfigStep \/ TarawihStep \/ IshaEndStep

Next ==
    \/ MainStart
    \/ LoopEnter
    \/ LoopExit
    \/ DateSkip
    \/ DateCall
    \/ MonthReturn
    \/ ConfigStep
    \/ TarawihStep
    \/ IshaEndStep

Spec == Init /\ [][Next]_vars

(***************************************************************************)
(* SpecEngine: one call of process_prayer_events with any arguments.       *)
(* Either the cells of the row and of the following day's row range over   *)
(* well-formed and ill-formed values for a few dates and ranges, or the    *)
(* date and the range take every value of EngineDates for a few rows.      *)
(***************************************************************************)
\* Friday 28 Feb 2025, Friday 7 Mar 2025, Saturday 8 Mar 2025
EngineDates == {Date(2025, 2, 28), Date(2025, 3, 7), Date(2025, 3, 8)}

CellChoices ==
    [c \in Columns |->
        CASE c = FAJR_BEGINS -> {Absent, NoneCell, Empty, Text, Hm(5, 10), Hm(0, 30)}
          [] c = DHUHR_JAMAAH -> {Absent, NoneCell, Empty, Text, Hm(1, 15)}
          [] c = ASR_JAMAAH -> {Text, Hm(4, 15)}
          [] c = MAGHRIB -> {Absent, NoneCell, Empty, Text, Hm(24, 0), Hm(6, 5)}
          [] c = ISHA_JAMAAH -> {NoneCell, Hm(8, 30)}]

CellRows == {r \in [Columns -> UNION {CellChoices[c] : c \in Columns}] :
                \A c \in Columns : r[c] \in CellChoices[c]}

NextRowChoices ==
    {<<>>} \cup {<<[GoodRow EXCEPT ![FAJR_BEGINS] = cell]>> :
                    cell \in {Absent, NoneCell, Empty, Text, Hm(5, 8), Hm(6, 30)}}

InitEngineCells ==
    /\ row \in CellRows
    /\ next_day_row \in NextRowChoices
    /\ event_date \in EngineDates
    /\ start_date = Date(2025, 2, 28)
    /\ end_date = Date(2025, 3, 8)
    /\ dry_run = FALSE
    /\ service = "built"

InitEngineRanges ==
    /\ row \in {[GoodRow EXCEPT ![FAJR_BEGINS] = f, ![MAGHRIB] = m] :
                    f \in {Hm(5, 10), Hm(0, 30)}, m \in {Hm(6, 5), Hm(11, 50)}}
    /\ next_day_row \in {<<>>, <<GoodRow>>, <<LateFajrRow>>}
    /\ event_date \in EngineDates
    /\ start_date \in EngineDates
    /\ end_date \in EngineDates
    /\ dry_run \in BOOLEAN
    /\ service = IF dry_run THEN "none" ELSE "built"

InitEngine ==
    /\ pc = "config"
    /\ ci = 1
    /\ InitEngineCells \/ InitEngineRanges
    /\ files = EmptyDict
    /\ current_month = None
    /\ MonthIdle
    /\ SinkIdle
    /\ RoundIdle

SpecEngine == InitEngine /\ [][EngineNext]_vars

(***************************************************************************)
(* SpecRound: round_time applied once and twice to every time of day, for  *)
(* every step of 1..MaxStep.                                               *)
(***************************************************************************)
AllTimes == {Time(h, m, 0) : h \in 0..23, m \in 0..59}

InitRound ==
    /\ pc = "round"
    /\ rt_t \in AllTimes
    /\ rt_s \in 1..MaxStep
    /\ rt_r1 = None
    /\ rt_r2 = None
    /\ sink_start = None
    /\ sink_end = None
    /\ ProgramIdle
    /\ MonthIdle
    /\ EngineIdle
    /\ SinkIdle

RoundOnce ==
    /\ pc = "round"
    /\ rt_r1' = round_time(rt_t, rt_s)
    /\ pc' = "rounded"
    /\ UNCHANGED <<mainVars, monthVars, engineVars, sinkVars, rt_t, rt_s, rt_r2,
                   sink_start, sink_end>>

RoundAgain ==
    /\ pc = "rounded"
    /\ rt_r2' = round_time(rt_r1, rt_s)
    /\ pc' = "rounded twice"
    /\ UNCHANGED <<mainVars, monthVars, engineVars, sinkVars, rt_t, rt_s, rt_r1,
                   sink_start, sink_end>>

RoundNext == RoundOnce \/ RoundAgain

SpecRound == InitRound /\ [][RoundNext]_vars

(***************************************************************************)
(* SpecSink: one call of create_event with any start and end time of day   *)
(* (seconds included, as the midpoint event has them) on dates that end a  *)
(* month, a leap February and a year.                                      *)
(***************************************************************************)
SinkTimes == {Time(h, m, s) : h \in {0, 11, 12, 23}, m \in {0, 15, 50, 59}, s \in {0, 30}}

SinkDates == {Date(2024, 2, 28), Date(2024, 2, 29), Date(2024, 12, 31), Date(2025, 3, 7)}

InitSink ==
    /\ pc = "sink"
    /\ sink_start \in SinkTimes
    /\ sink_end \in SinkTimes
    /\ event_date \in SinkDates
    /\ dry_run \in BOOLEAN
    /\ service = IF dry_run THEN "none" ELSE "built"
    /\ start_date = None
    /\ end_date = None
    /\ files = EmptyDict
    /\ current_month = None
    /\ row = None
    /\ next_day_row = <<>>
    /\ ci = 0
    /\ rt_t = None
    /\ rt_s = 0
    /\ rt_r1 = None
    /\ rt_r2 = None
    /\ MonthIdle
    /\ SinkIdle

SinkCall ==
    /\ pc = "sink"
    /\ \E ok \in BOOLEAN :
           create_event("event", sink_start, sink_end, event_date, ok)
    /\ pc' = "sunk"
    /\ UNCHANGED <<mainVars, monthVars, engineVars, roundVars>>

SpecSink == InitSink /\ [][SinkCall]_vars

(***************************************************************************)
(* SpecMidpoint: one call of process_prayer_events on a well-formed row,   *)
(* for every hour of Maghrib and of the following day's Fajr.              *)
(***************************************************************************)
MaghribCells == {Hm(h, m) : h \in 0..23, m \in {0, 5, 59}}

NextFajrCells == {Hm(h, m) : h \in 0..23, m \in {0, 8, 40, 59}}

InitMidpoint ==
    /\ pc = "config"
    /\ ci = 1
    /\ row \in {[GoodRow EXCEPT ![MAGHRIB] = cell] : cell \in MaghribCells}
    /\ next_day_row \in {<<[GoodRow EXCEPT ![FAJR_BEGINS] = cell]>> :
                            cell \in NextFajrCells}
    /\ event_date \in EngineDates
    /\ start_date = Date(2025, 2, 28)
    /\ end_date = Date(2025, 3, 8)
    /\ dry_run = TRUE
    /\ service = "none"
    /\ files = EmptyDict
    /\ current_month = None
    /\ MonthIdle
    /\ SinkIdle
    /\ RoundIdle

SpecMidpoint == InitMidpoint /\ [][EngineNext]_vars

(***************************************************************************)
(* What a day should yield: the events of a row whose own cells parse.     *)
(***************************************************************************)
RECURSIVE ConfiguredEvents(_, _, _, _, _)
ConfiguredEvents(i, r, d, first, last) ==
    IF i > Len(EVENT_CONFIGS) THEN <<>>
    ELSE LET config == EVENT_CONFIGS[i]
             cell == RowGet(r, config.csv_column)
             times == EventTimes(config, cell, d)
         IN  (IF NonEmpty(cell) /\ times # None /\ InRange(d, first, last)
              THEN <<EventBody(config.summary, times.start_time, times.end_time, d)>>
              ELSE <<>>)
             \o ConfiguredEvents(i + 1, r, d, first, last)

TarawihEvents(r, d) ==
    LET fajr_time == convert_to_24h_format(RowGet(r, FAJR_BEGINS), "fajr")
    IN  IF fajr_time = None THEN <<>>
        ELSE <<EventBody("Tarawih", TarawihTimes(fajr_time).start_time,
                         TarawihTimes(fajr_time).end_time, d)>>

\* the calls of the log that are not the midpoint event
RECURSIVE WithoutIshaEnd(_)
WithoutIshaEnd(log) ==
    IF log = <<>> THEN <<>>
    ELSE (IF Head(log).summary = "'Isha End" THEN <<>> ELSE <<Head(log)>>)
            \o WithoutIshaEnd(Tail(log))

HasCall(summary) == \E i \in 1..Len(calls) : calls[i].summary = summary

\* process_prayer_events is over, by return or by an exception
EngineOver == pc \in {"dates", "crashed"}

(***************************************************************************)
(* Claims.                                                                 *)
(***************************************************************************)

\* C1: in a full run of main, every event handed to create_event carries a
\* date within the requested range [start_date, end_date]: the configured
\* events, Tarawih and 'Isha End alike, whatever the tables hold.
C1_EventsWithinRange ==
    \A i \in 1..Len(calls) : InRange(calls[i].event_date, start_date, end_date)

\* C1 witness: a month is finished in which a date of the table was outside
\* the range and the log holds a Tarawih and an 'Isha End event.
C1_Witness ==
    /\ pc = "dates"
    /\ idx > Len(keys)
    /\ \E k \in 1..Len(keys) : ~InRange(keys[k], start_date, end_date)
    /\ HasCall("Tarawih")
    /\ HasCall("'Isha End")

\* C2: in a single call of process_prayer_events, an event is passed to
\* create_event only if the row's own date is within the range; for the
\* 'Isha End event the date checked is its midpoint date.  (Violated: the
\* Tarawih block has no range test.)
C2_EngineGatesEveryEvent ==
    \A i \in 1..Len(calls) :
        IF calls[i].summary = "'Isha End"
        THEN InRange(calls[i].event_date, start_date, end_date)
        ELSE InRange(event_date, start_date, end_date)

\* C3: every event passed to create_event ends strictly after it starts:
\* the start is on the event date, and the end is on the event date when
\* the end time of day is after the start time of day, and exactly one
\* calendar day later otherwise.
C3_EndAfterStart ==
    \A i \in 1..Len(calls) :
        LET e == calls[i]
        IN  /\ DateTimeLT(e.start_dt, e.end_dt)
            /\ e.start_dt = Combine(e.event_date, e.start_time)
            /\ e.end_dt.time = e.end_time
            /\ e.end_dt.date = IF TimeSecs(e.end_time) <= TimeSecs(e.start_time)
                               THEN NextDay(e.event_date)
                               ELSE e.event_date

\* C3 witness: start 23:50, end 00:15 on 31 Dec 2024 ends on 1 Jan 2025.
C3_Witness ==
    /\ pc = "sunk"
    /\ calls[1].start_dt = Combine(Date(2024, 12, 31), Time(23, 50, 0))
    /\ calls[1].end_dt = Combine(Date(2025, 1, 1), Time(0, 15, 0))

\* C4 as claimed: round_time is idempotent for every positive step.
\* (Violated: with a step that does not divide 1440 a time can round past
\* midnight to a time that is no multiple of the step.)
C4_IdempotentEveryStep == pc = "rounded twice" => rt_r2 = rt_r1

\* C4 as amended: round_time is idempotent for every step that divides the
\* 1440 minutes of a day, the steps 5 and 15 of the engine included.
C4_IdempotentDividingStep ==
    (pc = "rounded twice" /\ MinutesPerDay % rt_s = 0) => rt_r2 = rt_r1

\* C4 witness: 23:53 rounded to 15 minutes is 00:00, and 00:00 again.
C4_Witness ==
    /\ pc = "rounded twice"
    /\ rt_s = 15
    /\ rt_t = Time(23, 53, 0)
    /\ rt_r1 = Time(0, 0, 0)
    /\ rt_r2 = Time(0, 0, 0)

\* C5: round_time(t, s) is a valid time of day (hour 0..23, minute 0..59)
\* whose minutes since midnight are a multiple of s nearest to those of t,
\* taken modulo 1440; what rounds up to 1440 minutes is 00:00.
C5_RoundsAndWraps ==
    pc \in {"rounded", "rounded twice"} =>
        LET total == rt_t.hour * 60 + rt_t.minute
            result == rt_r1.hour * 60 + rt_r1.minute
        IN  /\ ValidTime(rt_r1)
            /\ rt_r1.second = 0
            /\ \E k \in 0..((total \div rt_s) + 1) :
                   /\ 2 * (k * rt_s - total) <= rt_s
                   /\ 2 * (total - k * rt_s) <= rt_s
                   /\ result = (k * rt_s) % 1440
                   /\ (k * rt_s = 1440 => rt_r1 = Time(0, 0, 0))

\* C5 witness: round_time(23:58, 5) = 00:00.
C5_Witness ==
    /\ pc = "rounded"
    /\ rt_t = Time(23, 58, 0)
    /\ rt_s = 5
    /\ rt_r1 = Time(0, 0, 0)

\* seconds from midnight of day d to the instant dt
Offset(dt, d) ==
    (ToOrdinal(dt.date) - ToOrdinal(d)) * SecondsPerDay + TimeSecs(dt.time)

\* today's Maghrib and the following day's Fajr, as the engine parses them
MaghribToday == convert_to_24h_format(RowGet(row, MAGHRIB), "maghrib")

FajrTomorrow ==
    IF next_day_row = <<>> THEN None
    ELSE convert_to_24h_format(RowGet(next_day_row[1], FAJR_BEGINS), "fajr")

\* C6: the 'Isha End event starts at the exact midpoint between today's
\* Maghrib and the following day's Fajr, not rounded to any grid, ends 15
\* minutes later, and is dated with the calendar date of the midpoint
\* (the row's date or the day after).
C6_IshaEndAtMidpoint ==
    \A i \in 1..Len(calls) :
        calls[i].summary = "'Isha End" =>
            LET e == calls[i]
            IN  /\ 2 * Offset(e.start_dt, event_date)
                     = TimeSecs(MaghribToday) + SecondsPerDay + TimeSecs(FajrTomorrow)
                /\ Offset(e.end_dt, event_date)
                     = Offset(e.start_dt, event_date) + 15 * 60
                /\ e.event_date = e.start_dt.date
                /\ e.event_date \in {event_date, NextDay(event_date)}

\* C6 witness: Maghrib 18:00 on 7 Mar and Fajr 06:00 on 8 Mar give an event
\* from 00:00 to 00:15 on 8 Mar.
C6_Witness ==
    /\ pc = "dates"
    /\ event_date = Date(2025, 3, 7)
    /\ MaghribToday = Time(18, 0, 0)
    /\ FajrTomorrow = Time(6, 0, 0)
    /\ \E i \in 1..Len(calls) :
           /\ calls[i].summary = "'Isha End"
           /\ calls[i].start_dt = Combine(Date(2025, 3, 8), Time(0, 0, 0))
           /\ calls[i].end_dt = Combine(Date(2025, 3, 8), Time(0, 15, 0))

\* the date of the midpoint when both times parse
MidpointDate ==
    IF TimeSecs(MaghribToday) + TimeSecs(FajrTomorrow) >= SecondsPerDay
    THEN NextDay(event_date)
    ELSE event_date

\* the cases in which no 'Isha End event is due
IshaEndNotDue ==
    \/ ~NonEmpty(RowGet(row, MAGHRIB))
    \/ MaghribToday = None
    \/ next_day_row = <<>>
    \/ ~NonEmpty(RowGet(next_day_row[1], FAJR_BEGINS))
    \/ FajrTomorrow = None
    \/ ~DateTimeLT(Combine(event_date, MaghribToday),
                   Combine(NextDay(event_date), FajrTomorrow))
    \/ ~InRange(MidpointDate, start_date, end_date)

\* the other events of the day
OtherEvents ==
    ConfiguredEvents(1, row, event_date, start_date, end_date)
        \o TarawihEvents(row, event_date)

\* C7: no 'Isha End event is emitted when today's Maghrib is missing or
\* does not parse, when the following day's row is absent or has no Fajr
\* that parses, when Maghrib is not before the following Fajr, or when
\* the midpoint's date is outside the range; and in each of these cases
\* the other events of the day are emitted as they would be.  (Violated:
\* a cell that DictReader fills with None stops the call with an
\* exception, and the events after it are lost.)
C7_IshaEndSuppressed ==
    (EngineOver /\ IshaEndNotDue) =>
        /\ ~HasCall("'Isha End")
        /\ WithoutIshaEnd(calls) = OtherEvents

\* C8: on an in-range date of March 2025 the Zuhr event is emitted from
\* 12:00 to 15:00 on a Friday and from 13:00 to 15:00 on any other day,
\* whatever the Dhuhr cell of the row holds.  (Violated: an empty cell is
\* skipped before the override is looked at.)
C8_DhuhrOverrideAlways ==
    ( /\ \/ pc = "config" /\ ci > 3
         \/ pc \in {"tarawih", "isha_end", "dates"}
      /\ event_date.year = 2025
      /\ event_date.month = 3
      /\ InRange(event_date, start_date, end_date) ) =>
        \E i \in 1..Len(calls) :
            /\ calls[i].summary = "Zuhr & News"
            /\ calls[i].event_date = event_date
            /\ calls[i].start_time =
                   IF Weekday(event_date) = 4 THEN Time(12, 0, 0) ELSE Time(13, 0, 0)
            /\ calls[i].end_time = Time(15, 0, 0)

\* the 'Isha End event of a day, when one is due
IshaEndEvents ==
    IF IshaEndNotDue THEN <<>>
    ELSE LET isha_params == calculate_isha_end(MaghribToday, FajrTomorrow,
                                               event_date, start_date, end_date)
         IN  <<EventBody("'Isha End", isha_params.start_time,
                         isha_params.end_time, isha_params.target_date)>>

\* the log ends with all the events of the day last processed
DayAttempted ==
    LET expected == OtherEvents \o IshaEndEvents
        n == Len(expected)
    IN  /\ Len(calls) >= n
        /\ SubSeq(calls, Len(calls) - n + 1, Len(calls)) = expected

\* C9: in a dry run no calendar service is constructed and no insert is
\* ever made, while every event of a processed day is still passed to
\* create_event and reported as handled.
C9_DryRunWritesNothing ==
    dry_run =>
        /\ service = "none"
        /\ inserts = 0
        /\ ~write_failed
        /\ (pc = "dates" /\ event_date # None) => DayAttempted

\* C9 witness: a dry run is over with a day's events, the midpoint event
\* included, in the log and no insert made.
C9_Witness ==
    /\ dry_run
    /\ pc = "done"
    /\ Len(calls) >= 8
    /\ HasCall("'Isha End")
    /\ inserts = 0

\* C10: no error of a single event or row stops the run: a call of
\* process_prayer_events never raises, and when it returns every event of
\* the day whose own values are valid has been attempted, whether or not
\* earlier inserts failed.  (Violated: a None cell of a short CSV line
\* raises AttributeError, which nothing catches.)
C10_ErrorsNeverStopTheRun ==
    /\ pc # "crashed"
    /\ (pc = "dates" /\ event_date # None /\ write_failed) => DayAttempted

(***************************************************************************)
(* SpecStore: one call of load_csv_data for the February file of a leap    *)
(* year or of a common year; the file is missing or holds up to MaxLines   *)
(* lines, in any order and with repeats, dated 28, 29 or 30 Feb, 01 Mar or *)
(* with a text that is no date.                                            *)
(***************************************************************************)
MaxLines == 2

StoreMonths == {Date(2024, 2, 1), Date(2025, 2, 1)}

StoreLines ==
    {Line(cell, cols) :
        cell \in {DayMonth(28, 2), DayMonth(29, 2), DayMonth(30, 2), DayMonth(1, 3),
                  BadDate},
        cols \in {GoodRow, LateFajrRow}}

StoreFiles == UNION {[1..n -> StoreLines] : n \in 0..MaxLines}

InitStore ==
    /\ pc = "store"
    /\ current_month \in StoreMonths
    /\ \/ files = EmptyDict
       \/ \E lines \in StoreFiles :
              files = [filename \in {FileName(current_month)} |-> lines]
    /\ start_date = None
    /\ end_date = None
    /\ dry_run = TRUE
    /\ service = "none"
    /\ MonthIdle
    /\ EngineIdle
    /\ SinkIdle
    /\ RoundIdle

\* current_data = load_csv_data(current_filename)
StoreLoad ==
    /\ pc = "store"
    /\ current_data' = load_csv_data(FileName(current_month))
    /\ pc' = "loaded"
    /\ UNCHANGED <<mainVars, next_data, keys, idx, processed_dates, engineVars,
                   sinkVars, roundVars>>

SpecStore == InitStore /\ [][StoreLoad]_vars

(***************************************************************************)
(* SpecRules: one call of process_prayer_events on a row whose cells all   *)
(* hold the same text h:m, for every hour and minute, on a Friday outside  *)
(* March 2025, on a day of March 2024 and on a day of March 2025.          *)
(***************************************************************************)
RuleDates == {Date(2025, 2, 28), Date(2024, 3, 8), Date(2025, 3, 7)}

InitRules ==
    /\ pc = "config"
    /\ ci = 1
    /\ row \in {[c \in Columns |-> Hm(h, m)] : h \in 0..23, m \in 0..59}
    /\ next_day_row = <<>>
    /\ event_date \in RuleDates
    /\ start_date = Date(2024, 3, 8)
    /\ end_date = Date(2025, 3, 7)
    /\ dry_run = TRUE
    /\ service = "none"
    /\ files = EmptyDict
    /\ current_month = None
    /\ MonthIdle
    /\ SinkIdle
    /\ RoundIdle

SpecRules == InitRules /\ [][EngineNext]_vars

\* the value of a cell h:m read as written, and read as afternoon or evening
AsWritten(cell) == Time(cell.h, cell.m, 0)

AsPM(cell) == Time(IF cell.h < 12 THEN cell.h + 12 ELSE cell.h, cell.m, 0)

\* the time of day n minutes after t (before it when n < 0), modulo a day
Shift(t, n) ==
    LET total == (t.hour * 60 + t.minute + n) % 1440
    IN  Time(total \div 60, total % 60, 0)

\* the pair the rule of an event gives for a row
RulePair(summary, r) ==
    CASE summary = "Suhur" ->
            Times(round_time(Shift(AsWritten(r[FAJR_BEGINS]), -40), 5),
                  AsWritten(r[FAJR_BEGINS]))
      [] summary = "Fajr & Morning Adhkar" ->
            Times(AsWritten(r[FAJR_BEGINS]),
                  round_time(Shift(AsWritten(r[FAJR_BEGINS]), 45), 15))
      [] summary = "Zuhr & News" ->
            Times(round_time(Shift(AsPM(r[DHUHR_JAMAAH]), -30), 15),
                  round_time(Shift(AsPM(r[DHUHR_JAMAAH]), 60), 15))
      [] summary = "'Asr & Evening Adhkar" ->
            Times(round_time(Shift(AsPM(r[ASR_JAMAAH]), -60), 15),
                  round_time(Shift(AsPM(r[ASR_JAMAAH]), -15), 15))
      [] summary = "Maghrib" ->
            Times(round_time(Shift(AsPM(r[MAGHRIB]), -10), 15),
                  round_time(Shift(AsPM(r[MAGHRIB]), 80), 15))
      [] summary = "'Isha" ->
            Times(round_time(Shift(AsPM(r[ISHA_JAMAAH]), -15), 15),
                  round_time(Shift(AsPM(r[ISHA_JAMAAH]), 30), 15))

ConfiguredSummaries == {EVENT_CONFIGS[i].summary : i \in 1..Len(EVENT_CONFIGS)}

\* C11: on an in-range date outside March 2025 every configured event that
\* is emitted has the start and end its rule gives for the parsed value of
\* its column (Fajr as written, the other columns as PM when the hour is
\* below 12), offsets wrapping across midnight: Suhur (round5(Fajr - 40),
\* Fajr), Fajr (Fajr, round15(Fajr + 45)), and for Zuhr, 'Asr, Maghrib and
\* 'Isha (round15(base + start_adjust), round15(base + end_adjust)).
C11_RuleFormulas ==
    ~(event_date.year = 2025 /\ event_date.month = 3) =>
        \A i \in 1..Len(calls) :
            calls[i].summary \in ConfiguredSummaries =>
                /\ Times(calls[i].start_time, calls[i].end_time)
                       = RulePair(calls[i].summary, row)
                /\ calls[i].event_date = event_date

\* C11 witness: outside March 2025 all six configured events are emitted
\* for cells 11:50, the 'Isha event from 23:30 to 00:15 across midnight.
C11_Witness ==
    /\ pc = "dates"
    /\ event_date = Date(2024, 3, 8)
    /\ row[ISHA_JAMAAH] = Hm(11, 50)
    /\ \A summary \in ConfiguredSummaries : HasCall(summary)
    /\ \E i \in 1..Len(calls) :
           /\ calls[i].summary = "'Isha"
           /\ calls[i].start_time = Time(23, 30, 0)
           /\ calls[i].end_time = Time(0, 15, 0)

\* the first day of the month of d, and of the month after it
MonthOf(d) == Date(d.year, d.month, 1)

FollowingMonth(d) ==
    IF d.month = 12 THEN Date(d.year + 1, 1, 1) ELSE Date(d.year, d.month + 1, 1)

\* when main returns the loop variable is past the month of end_date
AllMonthsDone ==
    (pc = "done" /\ DateLE(start_date, end_date)) =>
        current_month = FollowingMonth(MonthOf(end_date))

\* a run with start_date <= end_date never ends before process_month was
\* called for the month of end_date
NoMonthLeftOut ==
    (pc = "crashed" /\ DateLE(start_date, end_date)) =>
        current_month = MonthOf(end_date)

\* the loop starts at the month of start_date
StartsAtFirstMonth ==
    (pc = "main" /\ pc' = "loop") => current_month' = MonthOf(start_date)

\* process_month is entered for months up to that of end_date only, with
\* the table of the month and the table of the month after it
EntersWithLookahead ==
    (pc = "loop" /\ pc' = "dates") =>
        /\ DateLE(current_month, MonthOf(end_date))
        /\ current_data' = load_csv_data(FileName(current_month))
        /\ next_data' = load_csv_data(FileName(FollowingMonth(current_month)))

\* the loop variable only moves when process_month returns, and then to
\* the next calendar month: every month is entered once, in ascending order
AdvancesOneMonth ==
    (pc # "main" /\ current_month' # current_month) =>
        /\ pc = "dates"
        /\ idx > Len(keys)
        /\ current_month' = FollowingMonth(current_month)

\* the date handed to the engine is later than every date of the table
\* that was looked at before it
DatesAscend ==
    (pc = "dates" /\ pc' = "config") =>
        /\ event_date' = keys[idx]
        /\ \A j \in 1..(idx - 1) : ToOrdinal(keys[j]) < ToOrdinal(keys[idx])

\* a number that every step of a run increases: the month of the loop,
\* then the position in its table, then the position in the engine
Rank ==
    LET month == IF current_month = None THEN 0
                 ELSE (current_month.year - 2000) * 12 + current_month.month
        place == CASE pc = "main" -> 0
                   [] pc = "loop" -> 0
                   [] pc = "dates" -> idx * 10
                   [] pc = "config" -> idx * 10 + ci
                   [] pc = "tarawih" -> idx * 10 + 7
                   [] pc = "isha_end" -> idx * 10 + 8
                   [] OTHER -> 990
    IN  month * 1000 + place

\* what holds of every run, crashed or not: each step moves the run on
\* (so it ends), and the loop goes through the months one by one
DriverLoopSteps ==
    [][/\ Rank' > Rank
       /\ StartsAtFirstMonth
       /\ EntersWithLookahead
       /\ AdvancesOneMonth
       /\ DatesAscend]_vars

\* C12: the driver loop of main terminates, and when start_date <= end_date
\* process_month is called exactly once for each calendar month from the
\* month of start_date to the month of end_date, in ascending order, the
\* year boundary included, each time with the table of the following
\* month as lookahead; the dates of a month are processed in ascending
\* order.  Stated on the end of a run: when it is over, the loop has gone
\* past the month of end_date or was at least in it.  (Violated: the
\* uncaught exception of a None cell ends the run before the later months
\* are reached.)
C12_LoopVisitsEveryMonth == AllMonthsDone /\ NoMonthLeftOut

\* the Date cell names a day that exists in the given year
RealDate(cell, year) ==
    /\ cell.tag = "dm"
    /\ cell.month \in 1..12
    /\ cell.day \in 1..DaysInMonth(year, cell.month)

\* C13: load_csv_data keys every row by the day and month of the row and
\* the year of the file name: every line whose Date cell names a real date
\* of that year, 29 Feb in a leap year included, has that date in the
\* table, mapped to the row of the last such line; nothing else is in the
\* table; a missing file gives the empty table.  (Violated: strptime reads
\* the day and month in the year 1900, in which 29 Feb does not exist.)
C13_KeysEveryRealDate ==
    pc = "loaded" =>
        IF FileName(current_month) \notin DOMAIN files THEN current_data = EmptyDict
        ELSE LET lines == files[FileName(current_month)]
                 year == current_month.year
                 Key(i) == Date(year, lines[i].date.month, lines[i].date.day)
                 Real == {i \in 1..Len(lines) : RealDate(lines[i].date, year)}
             IN  /\ \A i \in Real :
                        /\ Key(i) \in DOMAIN current_data
                        /\ (\A j \in Real : j > i => Key(j) # Key(i))
                               => current_data[Key(i)] = lines[i].cols
                 /\ \A d \in DOMAIN current_data : \E i \in Real : d = Key(i)

====
